---- MODULE Spec2Model ----
(***************************************************************************)
(* HubSpot export tool (src/hubspot-sync.js): the export run as a state    *)
(* machine.  One step per await boundary of the main flow: a vendor        *)
(* request is sent in one step and answered in the next.  The vendor (CRM  *)
(* API and OAuth token endpoint) and the filesystem are the environment:   *)
(* their data is fixed by Init, their failures are chosen step by step.    *)
(* Spec starts at exportDealsAndActivities() with an access token set, no  *)
(* refresh pending and an empty activities directory; SpecStartup starts   *)
(* where the script is loaded, with any configuration.  Of a token set     *)
(* only the access and the refresh token are kept; of the timestamps only  *)
(* whether the stored expiry has passed when the script is loaded.         *)
(* SpecAuth is the authorization script kept in the same source file.     *)
(***************************************************************************)
EXTENDS Naturals, Sequences, FiniteSets

VARIABLES
  entry,          \* the function called from outside: the export run or one of its parts
  pc,             \* position of the main sequential flow
  config,         \* config.accessToken / config.refreshToken (0 = not set)
  hubspotClient,  \* bearer credential installed on the shared API client
  envFile,        \* token lines of the .env file
  tokens,         \* refreshAccessToken's local `tokens` (0 = none)
  refreshCaller,  \* which function awaits refreshAccessToken
  issued,         \* vendor side: last access token generation issued
  n401,           \* vendor side: number of 401 answers given so far
  refreshCount,   \* number of refresh requests sent since the entry call began
  pages,          \* vendor side: the deal pages, page k answers cursor k-1
  deals, after, hasMore,      \* getAllDeals locals
  pageLog,        \* history: deal-page requests, [after, token, count, outcome, results, next]
  dealsOutcome,   \* "none" | "returned" | "raised"
  dealId, objectType,         \* getAssociatedObjects parameters
  associations, fullObjects, i, \* getAssociatedObjects locals
  depth,          \* recursive re-invocations of getAssociatedObjects in this call
  listLog,        \* history: outcomes of the association listings of this resolver call
  listed,         \* history: the references the last successful listing returned
  batchLog,       \* history: batch-read requests, [inputs, outcome, results]
  gaoResult,      \* value returned by getAssociatedObjects
  gaoOutcome,     \* "none" | "returned" | "raised"
  activities,     \* getDealActivities' record under construction / returned
  typeIdx,        \* position in activityTypes
  gdaOutcome,     \* "none" | "returned" | "raised"
  dealsJson,      \* deals.json: whether this run wrote it, and the list it holds
  activityFiles,  \* deal ids d for which this run wrote activities/d.json
  processedCount, \* deals processed so far by the export loop
  sawAssociations, \* history: per processed deal, whether its record held any reference
  settings,       \* config.clientId / config.clientSecret set; config.tokenExpiresAt passed
  startupRefresh, \* the refreshAccessToken() call the startup block does not await
  exit,           \* "none", or the code process.exit was called with
  refreshFailed,  \* history: a refresh request of this run has failed
  aggregated,     \* history: the deal ids passed to getDealActivities, in order
  writeFailedAt,  \* history: position of the deal whose activity file write failed, or 0
  oauth           \* the authorization script: what it read, requested and started

vars == <<entry, pc, config, hubspotClient, envFile, tokens, refreshCaller, issued,
          n401, refreshCount, pages, deals, after, hasMore, pageLog,
          dealsOutcome, dealId, objectType, associations, fullObjects, i, depth,
          listLog, listed, batchLog, gaoResult, gaoOutcome, activities, typeIdx, gdaOutcome,
          dealsJson, activityFiles, processedCount, sawAssociations,
          settings, startupRefresh, exit, refreshFailed, aggregated, writeFailedAt, oauth>>

tokenVars == <<config, hubspotClient, envFile, tokens, refreshCaller, issued, n401, refreshCount>>
vendorVars == <<pages>>
dealsVars == <<deals, after, hasMore, pageLog, dealsOutcome>>
gaoVars == <<dealId, objectType, associations, fullObjects, i, depth, listLog, listed,
             batchLog, gaoResult, gaoOutcome>>
gdaVars == <<activities, typeIdx, gdaOutcome>>
exportVars == <<dealsJson, activityFiles, processedCount, sawAssociations>>
startupVars == <<settings, startupRefresh, exit, oauth>>
historyVars == <<refreshFailed, aggregated, writeFailedAt>>

----------------------------------------------------------------------------
(* Bounds of the model *)

\* pages the vendor holds at most
MaxPages == 3
\* 401 answers the vendor gives at most in one run
Max401 == 2
\* batches one resolver call needs at most, resolver checked alone
MaxChunks == 3
\* deals the vendor holds at most, inside a whole export run
MaxExportDeals == 3
\* 401 answers the vendor gives at most inside a whole export run
MaxExport401 == 1

(* Program constants *)

\* const batchSize = 100; // Maximum allowed by HubSpot
batchSize == 100

----------------------------------------------------------------------------
(* Helpers *)

Min(a, b) == IF a < b THEN a ELSE b

RECURSIVE Concat(_)
Concat(ss) == IF ss = <<>> THEN <<>> ELSE Head(ss) \o Concat(Tail(ss))

NoDuplicates(s) == \A a, b \in DOMAIN s : a # b => s[a] # s[b]

----------------------------------------------------------------------------
(* Vendor data: deal pages.  A page is [results, next]; next = 0 is "no     *)
(* paging.next", next = c > 0 is the cursor of page c + 1.  A next-cursor  *)
(* always points forward, so every pagination run is finite.               *)

\* the result lists page k may hold: empty, one or two fresh ids, or a repeat of deal 1
PageResults(k) == { <<>>, <<2 * k - 1>>, <<2 * k - 1, 2 * k>>, <<1>> }

PageSeqs(n) ==
  { ps \in [1..n -> [results : UNION { PageResults(k) : k \in 1..n }, next : 0..(n - 1)]] :
      \A k \in 1..n : /\ ps[k].results \in PageResults(k)
                      /\ ps[k].next = 0 \/ ps[k].next >= k }

\* basicApi.getPage(limit, after, ...): the page the vendor serves for cursor `after`
GetPage(cursor) == pages[cursor + 1]

----------------------------------------------------------------------------
(* refreshAccessToken and updateEnvFile *)

\* vendor side: whether the vendor may answer one more request with 401
May401 ==
  n401 < (IF entry \in {"getAllDeals", "getAssociatedObjects"} THEN Max401 ELSE MaxExport401)

\* error.message.includes('401') && config.refreshToken
CanRefresh == config.refreshToken # 0

\* hubspotClient.setAccessToken(newToken), newToken being refreshAccessToken's return value
SetAccessTokenDropped(newToken) == hubspotClient

SetAccessToken(newToken) == newToken

\* console.log('Refreshing access token...'); tempClient.oauth.tokensApi.create('refresh_token', ...)
RefreshRequest ==
  /\ pc = "refresh_call"
  /\ pc' = "refresh_wait"
  /\ refreshCount' = refreshCount + 1
  /\ UNCHANGED <<entry, config, hubspotClient, envFile, tokens, refreshCaller, issued, n401>>
  /\ UNCHANGED <<vendorVars, dealsVars, gaoVars, gdaVars, exportVars>>
  /\ UNCHANGED startupVars
  /\ UNCHANGED historyVars

\* the token endpoint answers: tokens = {...}; config.* = tokens.*; then updateEnvFile(tokens)
RefreshOk ==
  /\ pc = "refresh_wait"
  /\ issued' = issued + 1
  /\ tokens' = issued + 1
  /\ config' = [accessToken |-> issued + 1, refreshToken |-> issued + 1]
  /\ pc' = "env_update"
  /\ UNCHANGED <<entry, hubspotClient, envFile, refreshCaller, n401, refreshCount>>
  /\ UNCHANGED <<vendorVars, dealsVars, gaoVars, gdaVars, exportVars>>
  /\ UNCHANGED startupVars
  /\ UNCHANGED historyVars

\* what the caller of refreshAccessToken does with the returned token
ResumeAfterRefresh ==
  /\ hubspotClient' = SetAccessToken(tokens)
  /\ tokens' = 0
  /\ refreshCaller' = "none"
  /\ IF refreshCaller = "getAllDeals"
       THEN \* continue: the loop retries the request
            /\ pc' = "deals_loop"
            /\ UNCHANGED <<dealsVars, gaoVars>>
       ELSE \* return await getAssociatedObjects(dealId, objectType)
            /\ pc' = "assoc_call"
            /\ depth' = depth + 1
            /\ UNCHANGED <<dealsVars, dealId, objectType, associations, fullObjects, i,
                           listLog, listed, batchLog, gaoResult, gaoOutcome>>

\* updateEnvFile: read .env, replace the token lines, write it back; any error is only
\* logged.  The file is left as it was when it cannot be read, when it has no token
\* lines for the patterns to match, or when the write fails.  refreshAccessToken then
\* returns tokens.accessToken to its caller.
UpdateEnvFile ==
  /\ pc = "env_update"
  /\ \E written \in BOOLEAN :
       envFile' = IF written THEN [accessToken |-> tokens, refreshToken |-> tokens]
                             ELSE envFile
  /\ ResumeAfterRefresh
  /\ UNCHANGED <<entry, config, issued, n401, refreshCount>>
  /\ UNCHANGED <<vendorVars, gdaVars, exportVars>>
  /\ UNCHANGED startupVars
  /\ UNCHANGED historyVars

----------------------------------------------------------------------------
(* How a thrown error travels up the callers *)

\* getAllDeals' outer catch logs and rethrows; exportDealsAndActivities' catch logs
\* 'Export failed:' and the run ends
RaiseFromGetAllDealsSwallowed ==
  /\ dealsOutcome' = "raised"
  /\ pc' = IF entry = "getAllDeals" THEN "done" ELSE "save_deals"

RaiseFromGetAllDeals ==
  /\ dealsOutcome' = "raised"
  /\ pc' = IF entry = "getAllDeals" THEN "done" ELSE "export_failed"

\* return { associations: [], objects: [] }
EmptyPairAsList == [shape |-> "list", list |-> <<>>]

EmptyPair == [shape |-> "pair", associations |-> <<>>, objects |-> <<>>]

\* the record getDealActivities' catch returns (the timestamp is left out):
\* { deal_id, error: error.message, activity_types: five empty pairs }
DegradedRecordMissingKey(id) ==
  [deal_id |-> id,
   error |-> "error.message",
   activity_types |-> [t \in {"notes", "calls", "meetings", "emails"} |-> EmptyPair]]

DegradedRecord(id) ==
  [deal_id |-> id,
   error |-> "error.message",
   activity_types |-> [t \in {"notes", "calls", "meetings", "emails", "tasks"} |-> EmptyPair]]

\* an error leaving getAssociatedObjects lands in getDealActivities' catch, which
\* returns the degraded record to the export loop
RaiseFromGetAssociatedObjects ==
  /\ gaoOutcome' = "raised"
  /\ IF entry = "getAssociatedObjects"
       THEN /\ pc' = "done"
            /\ UNCHANGED gdaVars
       ELSE /\ activities' = DegradedRecord(dealId)
            /\ gdaOutcome' = "returned"
            /\ pc' = "export_check"
            /\ UNCHANGED typeIdx

\* the token endpoint fails: refreshAccessToken logs and rethrows
RefreshFail ==
  /\ pc = "refresh_wait"
  /\ refreshCaller' = "none"
  /\ IF refreshCaller = "getAllDeals"
       THEN \* catch (refreshError) { ...; throw refreshError; }
            /\ RaiseFromGetAllDeals
            /\ UNCHANGED <<deals, after, hasMore, pageLog, gaoVars, gdaVars>>
       ELSE \* line 248 is not inside a try: the error leaves getAssociatedObjects
            /\ RaiseFromGetAssociatedObjects
            /\ UNCHANGED <<dealsVars, dealId, objectType, associations, fullObjects, i,
                           depth, listLog, listed, batchLog, gaoResult>>
  /\ UNCHANGED <<entry, config, hubspotClient, envFile, tokens, issued, n401, refreshCount>>
  /\ UNCHANGED <<vendorVars, exportVars>>
  /\ UNCHANGED startupVars
  /\ refreshFailed' = TRUE
  /\ UNCHANGED <<aggregated, writeFailedAt>>

----------------------------------------------------------------------------
(* getAllDeals *)

\* deals.push(...response.results)
PushResultsReplacing(acc, results) == results

PushResults(acc, results) == acc \o results

\* response.paging && response.paging.next
HasNextWhenNonEmpty(response) == response.results # <<>>

HasNext(response) == response.next # 0

SetLast(log, entry_) == [log EXCEPT ![Len(log)] = entry_]

\* while (hasMore) { response = await hubspotClient.crm.deals.basicApi.getPage(..., after, ...)
GetPageRequest ==
  /\ pc = "deals_loop"
  /\ hasMore
  /\ pageLog' = Append(pageLog, [after |-> after, token |-> hubspotClient,
                                 count |-> Len(deals), outcome |-> "pending",
                                 results |-> <<>>, next |-> 0])
  /\ pc' = "deals_wait"
  /\ UNCHANGED <<entry, deals, after, hasMore, dealsOutcome>>
  /\ UNCHANGED <<tokenVars, vendorVars, gaoVars, gdaVars, exportVars>>
  /\ UNCHANGED startupVars
  /\ UNCHANGED historyVars

\* the page arrives: push the results, advance the cursor or clear hasMore
GetPageOk ==
  /\ pc = "deals_wait"
  /\ LET response == GetPage(after)
     IN /\ deals' = PushResults(deals, response.results)
        /\ IF HasNext(response)
             THEN /\ after' = response.next
                  /\ UNCHANGED hasMore
             ELSE /\ hasMore' = FALSE
                  /\ UNCHANGED after
        /\ pageLog' = SetLast(pageLog, [pageLog[Len(pageLog)] EXCEPT
                                          !.outcome = "ok",
                                          !.results = response.results,
                                          !.next = response.next])
  /\ pc' = "deals_loop"
  /\ UNCHANGED <<entry, dealsOutcome>>
  /\ UNCHANGED <<tokenVars, vendorVars, gaoVars, gdaVars, exportVars>>
  /\ UNCHANGED startupVars
  /\ UNCHANGED historyVars

\* the request fails with a message containing '401'
GetPage401 ==
  /\ pc = "deals_wait"
  /\ May401
  /\ n401' = n401 + 1
  /\ pageLog' = SetLast(pageLog, [pageLog[Len(pageLog)] EXCEPT !.outcome = "401"])
  /\ IF CanRefresh
       THEN /\ pc' = "refresh_call"
            /\ refreshCaller' = "getAllDeals"
            /\ UNCHANGED dealsOutcome
       ELSE \* else-branch: throw error
            /\ RaiseFromGetAllDeals
            /\ UNCHANGED refreshCaller
  /\ UNCHANGED <<entry, deals, after, hasMore>>
  /\ UNCHANGED <<config, hubspotClient, envFile, tokens, issued, refreshCount>>
  /\ UNCHANGED <<vendorVars, gaoVars, gdaVars, exportVars>>
  /\ UNCHANGED startupVars
  /\ UNCHANGED historyVars

\* the request fails with any other error: rethrown
GetPageError ==
  /\ pc = "deals_wait"
  /\ pageLog' = SetLast(pageLog, [pageLog[Len(pageLog)] EXCEPT !.outcome = "error"])
  /\ RaiseFromGetAllDeals
  /\ UNCHANGED <<entry, deals, after, hasMore>>
  /\ UNCHANGED <<tokenVars, vendorVars, gaoVars, gdaVars, exportVars>>
  /\ UNCHANGED startupVars
  /\ UNCHANGED historyVars

\* hasMore is false: console.log(`Total deals retrieved...`); return deals
GetAllDealsReturn ==
  /\ pc = "deals_loop"
  /\ ~hasMore
  /\ dealsOutcome' = "returned"
  /\ pc' = IF entry = "getAllDeals" THEN "done" ELSE "save_deals"
  /\ UNCHANGED <<entry, deals, after, hasMore, pageLog>>
  /\ UNCHANGED <<tokenVars, vendorVars, gaoVars, gdaVars, exportVars>>
  /\ UNCHANGED startupVars
  /\ UNCHANGED historyVars

----------------------------------------------------------------------------
(* getAssociatedObjects(dealId, objectType) *)

\* const activityTypes = ['notes', 'calls', 'meetings', 'emails', 'tasks'];
activityTypes == <<"notes", "calls", "meetings", "emails", "tasks">>

\* the cases of the switch that have a batch API
BatchTypes == {"notes", "emails", "calls", "meetings", "tasks"}

\* vendor side: the references associationsApi.getAll lists when it holds n of them
AssocRefs(n) == [k \in 1..n |-> [toObjectId |-> 7000 + k]]

\* vendor side: the objects a successful batch read returns for its inputs
BatchObjects(inputs) == [k \in DOMAIN inputs |-> [id |-> inputs[k].id, properties |-> "p"]]

\* vendor side: how many references one <<deal, type>> may have.  For the resolver on
\* its own the sizes at and between the batch boundaries (0, 1, 50, 99, 100, 101, ...).
\* Inside a whole export run, where only their presence matters, a deal has no or two
\* notes, no or two tasks, and nothing of the other types.
AssocSizes ==
  IF entry = "getAssociatedObjects"
    THEN { n \in 0..(MaxChunks * batchSize) : n % batchSize \in {0, 1, 50, 99} }
    ELSE IF objectType \in {"notes", "tasks"} THEN {0, 2} ELSE {0}

\* associations.results && associations.results.length > 0
HasAssociations(results) == Len(results) > 0

\* associations.results.map(result => result.toObjectId)
ObjectIds(results) == [k \in DOMAIN results |-> results[k].toObjectId]

\* objectIds.slice(i, i + batchSize)
SliceOverlapping(ids, from, to) == SubSeq(ids, from + 1, Min(to + 1, Len(ids)))

Slice(ids, from, to) == SubSeq(ids, from + 1, Min(to, Len(ids)))

\* batchIds.map(id => ({ id }))
BatchInputs(batchIds) == [k \in DOMAIN batchIds |-> [id |-> batchIds[k]]]

\* catch (batchError): log, then the for loop goes on with i += batchSize
AfterBatchErrorAbort(from) == from + Len(associations)

AfterBatchError(from) == from + batchSize

\* activities.activity_types[type] = results
PutType(record, type, value) ==
  [record EXCEPT !.activity_types =
     [t \in (DOMAIN record.activity_types) \cup {type} |->
        IF t = type THEN value ELSE record.activity_types[t]]]

\* getAssociatedObjects returns `value`: to the outside, or into getDealActivities' loop
ReturnFromGetAssociatedObjects(value) ==
  /\ gaoResult' = value
  /\ gaoOutcome' = "returned"
  /\ IF entry = "getAssociatedObjects"
       THEN /\ pc' = "done"
            /\ UNCHANGED gdaVars
       ELSE /\ activities' = PutType(activities, objectType, value)
            /\ typeIdx' = typeIdx + 1
            /\ pc' = "activities_loop"
            /\ UNCHANGED gdaOutcome

\* await hubspotClient.crm.deals.associationsApi.getAll(dealId, objectType)
ListAssociationsRequest ==
  /\ pc = "assoc_call"
  /\ pc' = "assoc_wait"
  /\ listLog' = Append(listLog, "pending")
  /\ UNCHANGED <<entry, dealId, objectType, associations, fullObjects, i, depth, listed,
                 batchLog, gaoResult, gaoOutcome>>
  /\ UNCHANGED <<tokenVars, vendorVars, dealsVars, gdaVars, exportVars>>
  /\ UNCHANGED startupVars
  /\ UNCHANGED historyVars

\* the listing arrives: without references return the empty pair, else start the batches
ListAssociationsOk ==
  /\ pc = "assoc_wait"
  /\ listLog' = SetLast(listLog, "ok")
  /\ \E n \in AssocSizes :
       LET results == AssocRefs(n)
       IN /\ listed' = results
          /\ IF HasAssociations(results)
               THEN /\ associations' = results
                    /\ fullObjects' = <<>>
                    /\ i' = 0
                    /\ pc' = "batch_loop"
                    /\ UNCHANGED <<gaoResult, gaoOutcome, gdaVars>>
               ELSE /\ ReturnFromGetAssociatedObjects(EmptyPair)
                    /\ UNCHANGED <<associations, fullObjects, i>>
  /\ UNCHANGED <<entry, dealId, objectType, depth, batchLog>>
  /\ UNCHANGED <<tokenVars, vendorVars, dealsVars, exportVars>>
  /\ UNCHANGED startupVars
  /\ UNCHANGED historyVars

\* the listing fails with a message containing '401'
ListAssociations401 ==
  /\ pc = "assoc_wait"
  /\ May401
  /\ n401' = n401 + 1
  /\ listLog' = SetLast(listLog, "401")
  /\ IF CanRefresh
       THEN /\ pc' = "refresh_call"
            /\ refreshCaller' = "getAssociatedObjects"
            /\ UNCHANGED <<gaoResult, gaoOutcome, gdaVars>>
       ELSE \* console.error(...); return { associations: [], objects: [] }
            /\ ReturnFromGetAssociatedObjects(EmptyPair)
            /\ UNCHANGED refreshCaller
  /\ UNCHANGED <<entry, dealId, objectType, associations, fullObjects, i, depth, listed, batchLog>>
  /\ UNCHANGED <<config, hubspotClient, envFile, tokens, issued, refreshCount>>
  /\ UNCHANGED <<vendorVars, dealsVars, exportVars>>
  /\ UNCHANGED startupVars
  /\ UNCHANGED historyVars

\* the listing fails with any other error: logged, the empty pair is returned
ListAssociationsError ==
  /\ pc = "assoc_wait"
  /\ listLog' = SetLast(listLog, "error")
  /\ ReturnFromGetAssociatedObjects(EmptyPair)
  /\ UNCHANGED <<entry, dealId, objectType, associations, fullObjects, i, depth, listed, batchLog>>
  /\ UNCHANGED <<tokenVars, vendorVars, dealsVars, exportVars>>
  /\ UNCHANGED startupVars
  /\ UNCHANGED historyVars

\* for (i < objectIds.length): slice the next batch and send the read of the type's
\* batch API; a type without batch API returns the raw reference list instead
BatchReadRequest ==
  /\ pc = "batch_loop"
  /\ i < Len(ObjectIds(associations))
  /\ LET batchIds == Slice(ObjectIds(associations), i, i + batchSize)
     IN IF objectType \in BatchTypes
          THEN /\ batchLog' = Append(batchLog, [inputs |-> BatchInputs(batchIds),
                                                outcome |-> "pending", results |-> <<>>])
               /\ pc' = "batch_wait"
               /\ UNCHANGED <<gaoResult, gaoOutcome, gdaVars>>
          ELSE \* default: return associations.results
               /\ ReturnFromGetAssociatedObjects([shape |-> "list", list |-> associations])
               /\ UNCHANGED batchLog
  /\ UNCHANGED <<entry, dealId, objectType, associations, fullObjects, i, depth, listLog, listed>>
  /\ UNCHANGED <<tokenVars, vendorVars, dealsVars, exportVars>>
  /\ UNCHANGED startupVars
  /\ UNCHANGED historyVars

\* the batch arrives: fullObjects.push(...batchObjects.results); i += batchSize
BatchReadOk ==
  /\ pc = "batch_wait"
  /\ LET results == BatchObjects(batchLog[Len(batchLog)].inputs)
     IN /\ fullObjects' = fullObjects \o results
        /\ batchLog' = SetLast(batchLog, [batchLog[Len(batchLog)] EXCEPT
                                            !.outcome = "ok", !.results = results])
  /\ i' = i + batchSize
  /\ pc' = "batch_loop"
  /\ UNCHANGED <<entry, dealId, objectType, associations, depth, listLog, listed, gaoResult, gaoOutcome>>
  /\ UNCHANGED <<tokenVars, vendorVars, dealsVars, gdaVars, exportVars>>
  /\ UNCHANGED startupVars
  /\ UNCHANGED historyVars

\* the batch read fails (a 401 like any other error): logged, the loop goes on
BatchReadFail ==
  /\ pc = "batch_wait"
  /\ \E kind \in {"401", "error"} :
       batchLog' = SetLast(batchLog, [batchLog[Len(batchLog)] EXCEPT !.outcome = kind])
  /\ i' = AfterBatchError(i)
  /\ pc' = "batch_loop"
  /\ UNCHANGED <<entry, dealId, objectType, associations, fullObjects, depth, listLog, listed,
                 gaoResult, gaoOutcome>>
  /\ UNCHANGED <<tokenVars, vendorVars, dealsVars, gdaVars, exportVars>>
  /\ UNCHANGED startupVars
  /\ UNCHANGED historyVars

\* the loop is over: return { associations: associations.results, objects: fullObjects }
GetAssociatedObjectsReturn ==
  /\ pc = "batch_loop"
  /\ ~(i < Len(ObjectIds(associations)))
  /\ ReturnFromGetAssociatedObjects([shape |-> "pair", associations |-> associations,
                                     objects |-> fullObjects])
  /\ UNCHANGED <<entry, dealId, objectType, associations, fullObjects, i, depth, listLog, listed, batchLog>>
  /\ UNCHANGED <<tokenVars, vendorVars, dealsVars, exportVars>>
  /\ UNCHANGED startupVars
  /\ UNCHANGED historyVars

----------------------------------------------------------------------------
(* getDealActivities(dealId) and exportDealsAndActivities *)

\* await ensureDirectoryExists(outputDir); await ensureDirectoryExists(outputDir/activities);
\* then getAllDeals() starts.  A mkdir error other than EEXIST ends the run in the catch.
EnsureDirectories ==
  /\ pc = "export_start"
  /\ \E created \in BOOLEAN : pc' = IF created THEN "deals_loop" ELSE "export_failed"
  /\ UNCHANGED <<entry, tokenVars, vendorVars, dealsVars, gaoVars, gdaVars, exportVars>>
  /\ UNCHANGED startupVars
  /\ UNCHANGED historyVars

\* await saveToFile(deals, 'deals.json'); a write error ends the run in the catch
SaveDeals ==
  /\ pc = "save_deals"
  /\ \E written \in BOOLEAN :
       IF written
         THEN /\ dealsJson' = [written |-> TRUE, deals |-> deals]
              /\ pc' = "export_loop"
         ELSE /\ pc' = "export_failed"
              /\ UNCHANGED dealsJson
  /\ UNCHANGED <<entry, activityFiles, processedCount, sawAssociations>>
  /\ UNCHANGED <<tokenVars, vendorVars, dealsVars, gaoVars, gdaVars>>
  /\ UNCHANGED startupVars
  /\ UNCHANGED historyVars

\* for (const deal of deals) { activities = await getDealActivities(deal.id): the call
\* builds { deal_id, timestamp, activity_types: {} } and enters its loop over the types
ExportNextDeal ==
  /\ pc = "export_loop"
  /\ processedCount < Len(deals)
  /\ dealId' = deals[processedCount + 1]
  /\ activities' = [deal_id |-> deals[processedCount + 1], activity_types |-> <<>>]
  /\ typeIdx' = 1
  /\ gdaOutcome' = "none"
  /\ pc' = "activities_loop"
  /\ UNCHANGED <<entry, objectType, associations, fullObjects, i, depth, listLog, listed,
                 batchLog, gaoResult, gaoOutcome>>
  /\ UNCHANGED <<tokenVars, vendorVars, dealsVars, exportVars>>
  /\ UNCHANGED startupVars
  /\ aggregated' = Append(aggregated, deals[processedCount + 1])
  /\ UNCHANGED <<refreshFailed, writeFailedAt>>

\* for (const type of activityTypes) { results = await getAssociatedObjects(dealId, type)
ResolveNextType ==
  /\ pc = "activities_loop"
  /\ typeIdx <= Len(activityTypes)
  /\ objectType' = activityTypes[typeIdx]
  /\ associations' = <<>> /\ fullObjects' = <<>> /\ i' = 0 /\ depth' = 0
  /\ listLog' = <<>> /\ listed' = <<>> /\ batchLog' = <<>>
  /\ gaoResult' = [shape |-> "none"]
  /\ gaoOutcome' = "none"
  /\ pc' = "assoc_call"
  /\ UNCHANGED <<entry, dealId, tokenVars, vendorVars, dealsVars, gdaVars, exportVars>>
  /\ UNCHANGED startupVars
  /\ UNCHANGED historyVars

\* all five types are stored: totalActivities is logged (NaN: the pairs have no
\* length), return activities
GetDealActivitiesReturn ==
  /\ pc = "activities_loop"
  /\ typeIdx > Len(activityTypes)
  /\ gdaOutcome' = "returned"
  /\ pc' = "export_check"
  /\ UNCHANGED <<entry, activities, typeIdx>>
  /\ UNCHANGED <<tokenVars, vendorVars, dealsVars, gaoVars, exportVars>>
  /\ UNCHANGED startupVars
  /\ UNCHANGED historyVars

\* Object.values(activities.activity_types)
\*   .some(data => data.associations && data.associations.length > 0)
HasActivitiesByObjects(record) ==
  \E t \in DOMAIN record.activity_types :
    /\ record.activity_types[t].shape = "pair"
    /\ Len(record.activity_types[t].objects) > 0

HasActivities(record) ==
  \E t \in DOMAIN record.activity_types :
    /\ record.activity_types[t].shape = "pair"
    /\ Len(record.activity_types[t].associations) > 0

\* history: the number of engagement types of the record that hold a reference
TypesWithReferences(record) ==
  Cardinality({ t \in DOMAIN record.activity_types :
                  /\ record.activity_types[t].shape = "pair"
                  /\ record.activity_types[t].associations # <<>> })

\* the loop body of the export is over: `activities` and the locals of the calls it made
\* are gone
EndOfLoopBody ==
  /\ activities' = [deal_id |-> 0, activity_types |-> <<>>]
  /\ typeIdx' = 1
  /\ gdaOutcome' = "none"
  /\ dealId' = 0 /\ objectType' = "none"
  /\ associations' = <<>> /\ fullObjects' = <<>> /\ i' = 0 /\ depth' = 0
  /\ listLog' = <<>> /\ listed' = <<>> /\ batchLog' = <<>>
  /\ gaoResult' = [shape |-> "none"]
  /\ gaoOutcome' = "none"

\* `activities/${deal.id}.json`: the file is known by the deal id in its name
ActivityFileNameByPosition(deal) == processedCount + 1

ActivityFileName(deal) == deal

\* saveToFile has no catch: a write error leaves the for loop and lands in the catch of
\* exportDealsAndActivities, which logs 'Export failed:' and ends the run
AfterSaveErrorContinue == "export_loop"

AfterSaveError == "export_failed"

\* hasActivities: await saveToFile(activities, `activities/${deal.id}.json`);
\* processedCount++.  A write error ends the run in the catch.
SaveActivities ==
  /\ pc = "export_check"
  /\ HasActivities(activities)
  /\ sawAssociations' = Append(sawAssociations, TypesWithReferences(activities) > 0)
  /\ \E written \in BOOLEAN :
       IF written
         THEN /\ activityFiles' = activityFiles \cup {ActivityFileName(deals[processedCount + 1])}
              /\ processedCount' = processedCount + 1
              /\ pc' = "export_loop"
              /\ UNCHANGED writeFailedAt
         ELSE /\ pc' = AfterSaveError
              /\ writeFailedAt' = processedCount + 1
              /\ UNCHANGED <<activityFiles, processedCount>>
  /\ EndOfLoopBody
  /\ UNCHANGED <<entry, dealsJson, tokenVars, vendorVars, dealsVars>>
  /\ UNCHANGED startupVars
  /\ UNCHANGED <<refreshFailed, aggregated>>

\* !hasActivities: no file; processedCount++
SkipActivities ==
  /\ pc = "export_check"
  /\ ~HasActivities(activities)
  /\ sawAssociations' = Append(sawAssociations, TypesWithReferences(activities) > 0)
  /\ processedCount' = processedCount + 1
  /\ pc' = "export_loop"
  /\ EndOfLoopBody
  /\ UNCHANGED <<entry, dealsJson, activityFiles>>
  /\ UNCHANGED <<tokenVars, vendorVars, dealsVars>>
  /\ UNCHANGED startupVars
  /\ UNCHANGED historyVars

\* the for loop is over: console.log('Export completed successfully!')
ExportCompleted ==
  /\ pc = "export_loop"
  /\ ~(processedCount < Len(deals))
  /\ pc' = "completed"
  /\ UNCHANGED <<entry, tokenVars, vendorVars, dealsVars, gaoVars, gdaVars, exportVars>>
  /\ UNCHANGED startupVars
  /\ UNCHANGED historyVars

----------------------------------------------------------------------------
(* Initial states *)

\* the authorization script before it has done anything
OAuthIdle(envExpiry) ==
  [envExpiry |-> envExpiry, existing |-> "unchecked", expiresAt |-> "none",
   refresh |-> "none", listener |-> "none", browser |-> FALSE, tokens |-> 0]

\* the state of a process in which no refresh was started when the script was loaded
NoStartupRefresh ==
  /\ settings = [clientId |-> TRUE, clientSecret |-> TRUE, tokenExpired |-> FALSE]
  /\ startupRefresh = [pc |-> "none", tokens |-> 0]
  /\ oauth = OAuthIdle("future")

\* what is the same at the start of every entry point
InitCommon ==
  /\ hubspotClient = config.accessToken
  /\ tokens = 0
  /\ refreshCaller = "none"
  /\ issued = 1
  /\ n401 = 0
  /\ refreshCount = 0
  /\ deals = <<>> /\ after = 0 /\ hasMore = TRUE
  /\ pageLog = <<>>
  /\ dealsOutcome = "none"
  /\ associations = <<>> /\ fullObjects = <<>> /\ i = 0 /\ depth = 0
  /\ listLog = <<>>
  /\ listed = <<>>
  /\ batchLog = <<>>
  /\ gaoResult = [shape |-> "none"]
  /\ gaoOutcome = "none"
  /\ activities = [deal_id |-> 0, activity_types |-> <<>>]
  /\ typeIdx = 1
  /\ gdaOutcome = "none"
  /\ dealsJson = [written |-> FALSE, deals |-> <<>>]
  /\ activityFiles = {}
  /\ processedCount = 0
  /\ sawAssociations = <<>>
  /\ exit = "none"
  /\ refreshFailed = FALSE
  /\ aggregated = <<>>
  /\ writeFailedAt = 0

\* getAllDeals called on its own, against any vendor page sequence
InitDeals ==
  /\ entry = "getAllDeals"
  /\ pc = "deals_loop"
  /\ \E n \in 1..MaxPages : pages \in PageSeqs(n)
  /\ dealId = 0 /\ objectType = "none"
  /\ config \in { [accessToken |-> 1, refreshToken |-> r] : r \in {0, 1} }
  /\ envFile = config
  /\ NoStartupRefresh
  /\ InitCommon

NextDeals ==
  \/ GetPageRequest
  \/ GetPageOk
  \/ GetPage401
  \/ GetPageError
  \/ GetAllDealsReturn
  \/ RefreshRequest
  \/ RefreshOk
  \/ RefreshFail
  \/ UpdateEnvFile

SpecDeals == InitDeals /\ [][NextDeals]_vars

\* getAssociatedObjects called on its own, for a deal and any type
InitResolve ==
  /\ entry = "getAssociatedObjects"
  /\ pc = "assoc_call"
  /\ pages = <<>>
  /\ dealId = 1
  /\ objectType \in BatchTypes \cup {"contacts"}
  /\ config \in { [accessToken |-> 1, refreshToken |-> r] : r \in {0, 1} }
  /\ envFile = config
  /\ NoStartupRefresh
  /\ InitCommon

NextResolve ==
  \/ ListAssociationsRequest
  \/ ListAssociationsOk
  \/ ListAssociations401
  \/ ListAssociationsError
  \/ BatchReadRequest
  \/ BatchReadOk
  \/ BatchReadFail
  \/ GetAssociatedObjectsReturn
  \/ RefreshRequest
  \/ RefreshOk
  \/ RefreshFail
  \/ UpdateEnvFile

SpecResolve == InitResolve /\ [][NextResolve]_vars

\* vendor side: the page sequences of an export run, MaxExportDeals deals at most
ExportPageSeqs ==
  { ps \in PageSeqs(1) \cup PageSeqs(2) :
      Len(Concat([k \in DOMAIN ps |-> ps[k].results])) <= MaxExportDeals }

\* exportDealsAndActivities(): the whole export run
Init ==
  /\ entry = "export"
  /\ pc = "export_start"
  /\ pages \in ExportPageSeqs
  /\ dealId = 0 /\ objectType = "none"
  /\ config \in { [accessToken |-> 1, refreshToken |-> r] : r \in {0, 1} }
  /\ envFile = config
  /\ NoStartupRefresh
  /\ InitCommon

Next ==
  \/ EnsureDirectories
  \/ GetPageRequest
  \/ GetPageOk
  \/ GetPage401
  \/ GetPageError
  \/ GetAllDealsReturn
  \/ SaveDeals
  \/ ExportNextDeal
  \/ ResolveNextType
  \/ ListAssociationsRequest
  \/ ListAssociationsOk
  \/ ListAssociations401
  \/ ListAssociationsError
  \/ BatchReadRequest
  \/ BatchReadOk
  \/ BatchReadFail
  \/ GetAssociatedObjectsReturn
  \/ GetDealActivitiesReturn
  \/ SaveActivities
  \/ SkipActivities
  \/ ExportCompleted
  \/ RefreshRequest
  \/ RefreshOk
  \/ RefreshFail
  \/ UpdateEnvFile

Spec == Init /\ [][Next]_vars

----------------------------------------------------------------------------
(* The script from the moment it is loaded.  Lines 72-93 and 349-357 run   *)
(* in one go, before any callback; the refresh the startup block starts is *)
(* not awaited, so its continuations run between the steps of the export.  *)

\* if (config.refreshToken && config.clientId && config.clientSecret) {
\*   hubspotClient.setAccessToken(config.accessToken);
\*   if (config.tokenExpiresAt && config.tokenExpiresAt < Date.now())
\*     refreshAccessToken().then(...).catch(...)      -- sends the refresh request
StartupBlock ==
  /\ pc = "load"
  /\ pc' = "token_check"
  /\ IF config.refreshToken # 0 /\ settings.clientId /\ settings.clientSecret
       THEN /\ hubspotClient' = SetAccessToken(config.accessToken)
            /\ IF settings.tokenExpired
                 THEN /\ startupRefresh' = [pc |-> "wait", tokens |-> 0]
                      /\ refreshCount' = refreshCount + 1
                 ELSE UNCHANGED <<startupRefresh, refreshCount>>
       ELSE UNCHANGED <<hubspotClient, startupRefresh, refreshCount>>
  /\ UNCHANGED <<entry, config, envFile, tokens, refreshCaller, issued, n401, settings, exit>>
  /\ UNCHANGED oauth
  /\ UNCHANGED <<vendorVars, dealsVars, gaoVars, gdaVars, exportVars, historyVars>>

\* if (!config.accessToken) { console.error(...); process.exit(1); }
\* exportDealsAndActivities();
AccessTokenCheck ==
  /\ pc = "token_check"
  /\ IF config.accessToken = 0
       THEN /\ pc' = "exited"
            /\ exit' = "1"
       ELSE /\ pc' = "export_start"
            /\ UNCHANGED exit
  /\ UNCHANGED <<entry, tokenVars, settings, startupRefresh, oauth>>
  /\ UNCHANGED <<vendorVars, dealsVars, gaoVars, gdaVars, exportVars, historyVars>>

\* a callback of the startup refresh can run once the script is loaded and while the
\* process lives
StartupRefreshAt(position) ==
  /\ startupRefresh.pc = position
  /\ pc \notin {"load", "token_check", "exited"}

\* the token endpoint answers the startup refresh: config.* = tokens.*; updateEnvFile(tokens)
StartupRefreshOk ==
  /\ StartupRefreshAt("wait")
  /\ issued' = issued + 1
  /\ config' = [accessToken |-> issued + 1, refreshToken |-> issued + 1]
  /\ startupRefresh' = [pc |-> "env_update", tokens |-> issued + 1]
  /\ UNCHANGED <<entry, pc, hubspotClient, envFile, tokens, refreshCaller, n401, refreshCount>>
  /\ UNCHANGED <<settings, exit, oauth>>
  /\ UNCHANGED <<vendorVars, dealsVars, gaoVars, gdaVars, exportVars, historyVars>>

\* updateEnvFile ends, refreshAccessToken returns, and the .then callback runs:
\* newToken => hubspotClient.setAccessToken(newToken)
StartupUpdateEnvFile ==
  /\ StartupRefreshAt("env_update")
  /\ \E written \in BOOLEAN :
       envFile' = IF written THEN [accessToken |-> startupRefresh.tokens,
                                   refreshToken |-> startupRefresh.tokens]
                             ELSE envFile
  /\ hubspotClient' = SetAccessToken(startupRefresh.tokens)
  /\ startupRefresh' = [pc |-> "done", tokens |-> 0]
  /\ UNCHANGED <<entry, pc, config, tokens, refreshCaller, issued, n401, refreshCount>>
  /\ UNCHANGED <<settings, exit, oauth>>
  /\ UNCHANGED <<vendorVars, dealsVars, gaoVars, gdaVars, exportVars, historyVars>>

\* the token endpoint fails: refreshAccessToken rethrows, and the .catch callback runs:
\* console.error('Failed to refresh token on startup:', ...); process.exit(1)
StartupRefreshFail ==
  /\ StartupRefreshAt("wait")
  /\ startupRefresh' = [pc |-> "failed", tokens |-> 0]
  /\ refreshFailed' = TRUE
  /\ pc' = "exited"
  /\ exit' = "1"
  /\ UNCHANGED <<entry, tokenVars, settings, aggregated, writeFailedAt, oauth>>
  /\ UNCHANGED <<vendorVars, dealsVars, gaoVars, gdaVars, exportVars>>

\* the script is loaded with any configuration
InitStartup ==
  /\ entry = "startup"
  /\ pc = "load"
  /\ pages \in ExportPageSeqs
  /\ dealId = 0 /\ objectType = "none"
  /\ config \in { [accessToken |-> a, refreshToken |-> r] : a, r \in {0, 1} }
  /\ settings \in [clientId : BOOLEAN, clientSecret : BOOLEAN, tokenExpired : BOOLEAN]
  /\ startupRefresh = [pc |-> "none", tokens |-> 0]
  /\ oauth = OAuthIdle(IF settings.tokenExpired THEN "past" ELSE "future")
  /\ envFile = config
  /\ InitCommon

NextStartup ==
  \/ StartupBlock
  \/ AccessTokenCheck
  \/ StartupRefreshOk
  \/ StartupUpdateEnvFile
  \/ StartupRefreshFail
  \/ EnsureDirectories
  \/ GetPageRequest
  \/ GetPageOk
  \/ GetPage401
  \/ GetPageError
  \/ GetAllDealsReturn
  \/ SaveDeals
  \/ ExportNextDeal
  \/ ResolveNextType
  \/ ListAssociationsRequest
  \/ ListAssociationsOk
  \/ ListAssociations401
  \/ ListAssociationsError
  \/ BatchReadRequest
  \/ BatchReadOk
  \/ BatchReadFail
  \/ GetAssociatedObjectsReturn
  \/ GetDealActivitiesReturn
  \/ SaveActivities
  \/ SkipActivities
  \/ ExportCompleted
  \/ RefreshRequest
  \/ RefreshOk
  \/ RefreshFail
  \/ UpdateEnvFile

SpecStartup == InitStartup /\ [][NextStartup]_vars

----------------------------------------------------------------------------
(* The authorization script (second script of src/hubspot-sync.js): it     *)
(* reads the tokens stored in .env, refreshes them when expired, and       *)
(* starts the local listener of the interactive flow otherwise.            *)

\* everything of the export script; the authorization script does not touch it
syncVars == <<config, hubspotClient, tokens, refreshCaller, n401, startupRefresh,
              vendorVars, dealsVars, gaoVars, gdaVars, exportVars, historyVars>>

\* checkExistingTokens: each of the three patterns /KEY=(.+)/ must match a non-empty
\* value; an unreadable file gives null like a missing line
ExistingTokens(readable) ==
  /\ readable
  /\ envFile.accessToken # 0
  /\ envFile.refreshToken # 0
  /\ oauth.envExpiry # "absent"

\* existingTokens.expiresAt < Date.now(); expiresAt is parseInt of the stored text, and
\* NaN, the value of a text that is no number, compares false
ExpiredOrNaN(expiresAt) == expiresAt \in {"past", "nan"}

Expired(expiresAt) == expiresAt = "past"

\* if (!HUBSPOT_CLIENT_ID || !HUBSPOT_CLIENT_SECRET) { ...; process.exit(1); }
\* main(): console.log('Checking for existing tokens...'); await checkExistingTokens()
ConfigCheck ==
  /\ pc = "auth_load"
  /\ IF ~settings.clientId \/ ~settings.clientSecret
       THEN /\ pc' = "exited"
            /\ exit' = "1"
       ELSE /\ pc' = "check_existing"
            /\ UNCHANGED exit
  /\ UNCHANGED <<entry, envFile, issued, refreshCount, settings, oauth, syncVars>>

\* app.listen(PORT, callback)
StartListener(state) == [state EXCEPT !.listener = "called"]

\* checkExistingTokens returns and main takes its branch: no tokens - start the
\* listener; tokens expired - send the refresh request; tokens valid - return
CheckExistingTokens ==
  /\ pc = "check_existing"
  /\ \E readable \in BOOLEAN :
       IF ExistingTokens(readable)
         THEN IF Expired(oauth.envExpiry)
                THEN /\ oauth' = [oauth EXCEPT !.existing = "found",
                                               !.expiresAt = oauth.envExpiry,
                                               !.refresh = "pending"]
                     /\ refreshCount' = refreshCount + 1
                     /\ pc' = "auth_refresh_wait"
                ELSE /\ oauth' = [oauth EXCEPT !.existing = "found",
                                               !.expiresAt = oauth.envExpiry]
                     /\ pc' = "auth_done"
                     /\ UNCHANGED refreshCount
         ELSE /\ oauth' = StartListener([oauth EXCEPT !.existing = "null"])
              /\ pc' = "listen"
              /\ UNCHANGED refreshCount
  /\ UNCHANGED <<entry, envFile, issued, settings, exit, syncVars>>

\* the token endpoint answers the refresh: tokens = {...}; await updateEnvFile(tokens)
AuthRefreshOk ==
  /\ pc = "auth_refresh_wait"
  /\ issued' = issued + 1
  /\ oauth' = [oauth EXCEPT !.refresh = "ok", !.tokens = issued + 1]
  /\ pc' = "auth_env_update"
  /\ UNCHANGED <<entry, envFile, refreshCount, settings, exit, syncVars>>

\* the authorization script's updateEnvFile: .env (or .env.example, or the built-in
\* template) with the token lines replaced is written; any error is only logged
WriteEnvFile(tokenSet) ==
  \E written \in BOOLEAN :
    IF written
      THEN /\ envFile' = [accessToken |-> tokenSet, refreshToken |-> tokenSet]
           /\ oauth' = [oauth EXCEPT !.envExpiry = "future"]
      ELSE UNCHANGED <<envFile, oauth>>

\* updateEnvFile ends, refreshAccessToken returns the tokens, main logs
\* 'Tokens refreshed successfully!' and returns
AuthUpdateEnvFile ==
  /\ pc = "auth_env_update"
  /\ WriteEnvFile(oauth.tokens)
  /\ pc' = "auth_done"
  /\ UNCHANGED <<entry, issued, refreshCount, settings, exit, syncVars>>

\* the token endpoint fails: refreshAccessToken returns null, main logs
\* 'Failed to refresh tokens. Starting OAuth flow...' and starts the listener
AuthRefreshFail ==
  /\ pc = "auth_refresh_wait"
  /\ oauth' = StartListener([oauth EXCEPT !.refresh = "failed"])
  /\ pc' = "listen"
  /\ UNCHANGED <<entry, envFile, issued, refreshCount, settings, exit, syncVars>>

\* the port is bound and the callback of app.listen opens the browser
ListenerBound ==
  /\ pc = "listen"
  /\ oauth' = [oauth EXCEPT !.listener = "bound", !.browser = TRUE]
  /\ pc' = "listening"
  /\ UNCHANGED <<entry, envFile, issued, refreshCount, settings, exit, syncVars>>

\* the port cannot be bound: the server's 'error' event has no handler, the process dies
ListenerError ==
  /\ pc = "listen"
  /\ oauth' = [oauth EXCEPT !.listener = "error"]
  /\ pc' = "exited"
  /\ exit' = "1"
  /\ UNCHANGED <<entry, envFile, issued, refreshCount, settings, syncVars>>

\* GET /oauth-callback?code=...: the code is sent to the token endpoint
OAuthCallback ==
  /\ pc = "listening"
  /\ pc' = "exchange_wait"
  /\ UNCHANGED <<entry, envFile, issued, refreshCount, settings, exit, oauth, syncVars>>

\* the exchange succeeds: tokens = {...}; await updateEnvFile(tokens)
ExchangeOk ==
  /\ pc = "exchange_wait"
  /\ issued' = issued + 1
  /\ oauth' = [oauth EXCEPT !.tokens = issued + 1]
  /\ pc' = "callback_env_update"
  /\ UNCHANGED <<entry, envFile, refreshCount, settings, exit, syncVars>>

\* the exchange fails: the error page with its 'Try again' link is sent
ExchangeFail ==
  /\ pc = "exchange_wait"
  /\ pc' = "listening"
  /\ UNCHANGED <<entry, envFile, issued, refreshCount, settings, exit, oauth, syncVars>>

\* updateEnvFile ends: the success page is sent and the exit timer is set
CallbackUpdateEnvFile ==
  /\ pc = "callback_env_update"
  /\ WriteEnvFile(oauth.tokens)
  /\ pc' = "exit_timer"
  /\ UNCHANGED <<entry, issued, refreshCount, settings, exit, syncVars>>

\* setTimeout(() => { ...; process.exit(0); }, 5000)
ExitTimer ==
  /\ pc = "exit_timer"
  /\ pc' = "exited"
  /\ exit' = "0"
  /\ UNCHANGED <<entry, envFile, issued, refreshCount, settings, oauth, syncVars>>

\* the authorization script is loaded, with any client settings and any .env
InitAuth ==
  /\ entry = "auth"
  /\ pc = "auth_load"
  /\ pages = <<>>
  /\ dealId = 0 /\ objectType = "none"
  /\ config = [accessToken |-> 0, refreshToken |-> 0]
  /\ settings \in [clientId : BOOLEAN, clientSecret : BOOLEAN, tokenExpired : {FALSE}]
  /\ startupRefresh = [pc |-> "none", tokens |-> 0]
  /\ envFile \in { [accessToken |-> a, refreshToken |-> r] : a, r \in {0, 1} }
  /\ \E expiry \in {"absent", "past", "future", "nan"} : oauth = OAuthIdle(expiry)
  /\ InitCommon

NextAuth ==
  \/ ConfigCheck
  \/ CheckExistingTokens
  \/ AuthRefreshOk
  \/ AuthUpdateEnvFile
  \/ AuthRefreshFail
  \/ ListenerBound
  \/ ListenerError
  \/ OAuthCallback
  \/ ExchangeOk
  \/ ExchangeFail
  \/ CallbackUpdateEnvFile
  \/ ExitTimer

SpecAuth == InitAuth /\ [][NextAuth]_vars

----------------------------------------------------------------------------
(* Claims about getAllDeals, checked under SpecDeals *)

\* the pages the vendor served, in the order getAllDeals received them
Served == SelectSeq(pageLog, LAMBDA e : e.outcome = "ok")

\* every deal id the vendor holds, page by page
VendorDealIds == Concat([k \in DOMAIN pages |-> pages[k].results])

\* C1: getAllDeals returns the concatenation, in page order, of the results of the
\* pages it was served; it requests no page after a served page without next-cursor
\* and returns only after such a page; if no deal id occurs twice in the vendor's
\* pages, none occurs twice in the returned list.
C1_ConcatenationOfPages ==
  /\ \A k \in 1..(Len(Served) - 1) : Served[k].next # 0
  /\ (pc = "deals_wait" => \A k \in DOMAIN Served : Served[k].next # 0)
  /\ (dealsOutcome = "returned" =>
        /\ Served # <<>>
        /\ Served[Len(Served)].next = 0
        /\ deals = Concat([k \in DOMAIN Served |-> Served[k].results])
        /\ (NoDuplicates(VendorDealIds) => NoDuplicates(deals)))

\* C1 witness: a run over three pages, one request answered 401 on the way, that
\* returned four distinct deals
C1_Witness ==
  /\ dealsOutcome = "returned"
  /\ Len(Served) = 3
  /\ Len(deals) = 4
  /\ NoDuplicates(deals)
  /\ \E k \in DOMAIN pageLog : pageLog[k].outcome = "401"

\* the list a run with no failure at all returns: follow the cursors from `cursor`
RECURSIVE NoFaultDeals(_)
NoFaultDeals(cursor) ==
  pages[cursor + 1].results \o
    (IF pages[cursor + 1].next = 0 THEN <<>> ELSE NoFaultDeals(pages[cursor + 1].next))

\* the access token the token endpoint handed out at its k-th successful refresh
IssuedAt(k) == 1 + k

\* C2: after a 401 answered by a successful refresh, the next request carries the same
\* cursor, finds the accumulator as it was, and carries the newly issued access token;
\* the list finally returned is the list of the run over the same pages with no 401.
C2_RetrySamePage ==
  /\ \A k \in 1..(Len(pageLog) - 1) :
       pageLog[k].outcome = "401" =>
         /\ pageLog[k + 1].after = pageLog[k].after
         /\ pageLog[k + 1].count = pageLog[k].count
         /\ pageLog[k + 1].token =
              IssuedAt(Cardinality({j \in 1..k : pageLog[j].outcome = "401"}))
  /\ (dealsOutcome = "returned" => deals = NoFaultDeals(0))

\* C2 witness: the request for the second page was answered 401, retried, and the run
\* returned deals of three pages
C2_Witness ==
  /\ dealsOutcome = "returned"
  /\ Len(Served) = 3
  /\ Len(deals) >= 3
  /\ \E k \in DOMAIN pageLog : pageLog[k].outcome = "401" /\ pageLog[k].after # 0

\* C9 (as claimed): for one page getAllDeals refreshes the token and re-requests the
\* page at most once, however often the vendor answers 401.
C9_SingleRetryPerPage ==
  \A j, k \in DOMAIN pageLog :
    (j < k /\ pageLog[j].after = pageLog[k].after) =>
      ~(pageLog[j].outcome = "401" /\ pageLog[k].outcome = "401")

----------------------------------------------------------------------------
(* Claims about refreshAccessToken, checked under SpecDeals *)

\* C14: once a refresh has reported success to its caller, config and the .env file
\* both hold the token set the token endpoint issued last (access token, refresh token
\* and the expiry that comes with them), whatever .env held before and whether or not
\* it could be written.
C14_RefreshPersistsTokens ==
  issued > 1 /\ pc # "env_update" =>
    /\ config = [accessToken |-> issued, refreshToken |-> issued]
    /\ envFile = [accessToken |-> issued, refreshToken |-> issued]

----------------------------------------------------------------------------
(* Claims about getAssociatedObjects, checked under SpecResolve *)

\* the resolver returned after listing references and running the batch loop
ReturnedFromBatches ==
  /\ gaoOutcome = "returned"
  /\ objectType \in BatchTypes
  /\ listLog[Len(listLog)] = "ok"
  /\ listed # <<>>

\* the ids the k-th batch read has to carry when n references were listed
ExpectedInputs(k, n) ==
  [j \in 1..(IF n - 100 * (k - 1) < 100 THEN n - 100 * (k - 1) ELSE 100) |->
     [id |-> listed[100 * (k - 1) + j].toObjectId]]

\* C3: with n > 0 references of a recognized type the resolver issues ceil(n/100) batch
\* reads, one after another, the k-th carrying the k-th consecutive slice of at most
\* 100 target ids in association order, so that every id is requested exactly once;
\* 250 references give reads of 100, 100 and 50 ids.
C3_BatchesOfHundred ==
  /\ \A k \in DOMAIN batchLog :
       /\ batchLog[k].inputs = ExpectedInputs(k, Len(listed))
       /\ (batchLog[k].outcome = "pending" => k = Len(batchLog) /\ pc = "batch_wait")
  /\ (ReturnedFromBatches =>
        /\ Len(batchLog) = (Len(listed) + 99) \div 100
        /\ Concat([k \in DOMAIN batchLog |-> batchLog[k].inputs])
             = [j \in DOMAIN listed |-> [id |-> listed[j].toObjectId]]
        /\ (Len(listed) = 250 =>
              [k \in DOMAIN batchLog |-> Len(batchLog[k].inputs)] = <<100, 100, 50>>))

\* C3 witness: a returned call that listed 250 references and sent three reads
C3_Witness ==
  /\ ReturnedFromBatches
  /\ Len(listed) = 250
  /\ Len(batchLog) = 3
  /\ Len(batchLog[3].inputs) = 50

\* the results of the batch reads that succeeded, in request order
SuccessfulResults ==
  Concat([k \in DOMAIN batchLog |->
            IF batchLog[k].outcome = "ok" THEN batchLog[k].results ELSE <<>>])

\* C4: whichever batch reads fail, every chunk is still requested, and the call returns
\* the pair whose objects are the results of exactly the successful reads, in order, and
\* whose associations are the complete list of references the listing returned.
C4_PartialBatches ==
  ReturnedFromBatches =>
    /\ Len(batchLog) = (Len(listed) + 99) \div 100
    /\ gaoResult.shape = "pair"
    /\ gaoResult.objects = SuccessfulResults
    /\ gaoResult.associations = listed

\* C4 witness: of three reads for 250 references the second failed; the call returned
\* the 150 objects of the other two and all 250 references
C4_Witness ==
  /\ ReturnedFromBatches
  /\ Len(batchLog) = 3
  /\ batchLog[1].outcome = "ok"
  /\ batchLog[2].outcome = "error"
  /\ batchLog[3].outcome = "ok"
  /\ Len(gaoResult.objects) = 150
  /\ Len(gaoResult.associations) = 250

\* the last listing succeeded and held no reference
ListedNothing ==
  /\ listLog # <<>>
  /\ listLog[Len(listLog)] = "ok"
  /\ listed = <<>>

\* C5: when the listing returns zero references the call returns
\* {associations: [], objects: []} and no batch read is issued.
C5_EmptyListing ==
  ListedNothing =>
    /\ batchLog = <<>>
    /\ gaoOutcome = "returned"
    /\ gaoResult = [shape |-> "pair", associations |-> <<>>, objects |-> <<>>]

\* C5 witness: a call whose listing succeeded with no reference has returned
C5_Witness ==
  /\ ListedNothing
  /\ pc = "done"
  /\ objectType = "notes"

\* C6 (as claimed): getAssociatedObjects never raises to its caller.
C6_NeverRaises == gaoOutcome # "raised"

\* C10 (as claimed): one call of getAssociatedObjects causes at most one token refresh
\* and at most one re-invocation of itself.
C10_SingleRefreshAndRetry == refreshCount <= 1 /\ depth <= 1

\* C17: with a refresh token configured, a batch read answered with 401 has led to a
\* refresh request, and a call in which no batch read failed for another reason
\* returns the objects of every chunk: one object for each listed reference, in order.
C17_Batch401Recovered ==
  CanRefresh =>
    /\ \A k \in DOMAIN batchLog : batchLog[k].outcome = "401" => refreshCount >= 1
    /\ (ReturnedFromBatches /\ (\A k \in DOMAIN batchLog : batchLog[k].outcome # "error") =>
          [j \in DOMAIN gaoResult.objects |-> gaoResult.objects[j].id]
            = [j \in DOMAIN listed |-> listed[j].toObjectId])

----------------------------------------------------------------------------
(* Claims about getDealActivities and the export loop, checked under Spec *)

\* a value of the shape { associations: [...], objects: [...] }
IsPair(value) ==
  /\ value.shape = "pair"
  /\ DOMAIN value = {"shape", "associations", "objects"}

\* C7: whatever the five resolver calls did, getDealActivities returns, without
\* raising, a record that carries the deal id and has exactly the keys notes, calls,
\* meetings, emails and tasks, each mapped to a pair; when an error left the resolver
\* the record also has an error field and the five pairs are empty.
C7_RecordShape ==
  /\ gdaOutcome # "raised"
  /\ (pc = "export_check" =>
        /\ gdaOutcome = "returned"
        /\ activities.deal_id = deals[processedCount + 1]
        /\ DOMAIN activities.activity_types = {"notes", "calls", "meetings", "emails", "tasks"}
        /\ \A t \in DOMAIN activities.activity_types : IsPair(activities.activity_types[t])
        /\ (gaoOutcome = "raised" =>
              /\ "error" \in DOMAIN activities
              /\ \A t \in DOMAIN activities.activity_types :
                   /\ activities.activity_types[t].associations = <<>>
                   /\ activities.activity_types[t].objects = <<>>))

\* C7 witness: for the second deal the refresh failed while tasks were listed, after
\* the four other types had been resolved; the degraded record was returned
C7_Witness ==
  /\ pc = "export_check"
  /\ processedCount = 1
  /\ gaoOutcome = "raised"
  /\ objectType = "tasks"
  /\ "error" \in DOMAIN activities

\* C8: at the end of a completed run deals.json holds the fetched list, and
\* activities/{id}.json exists (the directory being empty when the run starts) for a
\* fetched deal exactly if the record returned for that deal held a non-empty
\* association list for some engagement type.
C8_FileIffReferences ==
  pc = "completed" =>
    /\ dealsJson = [written |-> TRUE, deals |-> deals]
    /\ Len(sawAssociations) = Len(deals)
    /\ activityFiles \subseteq { deals[k] : k \in DOMAIN deals }
    /\ \A k \in DOMAIN deals :
         deals[k] \in activityFiles
           <=> \E j \in DOMAIN deals : deals[j] = deals[k] /\ sawAssociations[j]

\* C8 witness: three deals, the first and the third with references, the second with
\* none: deals.json has three entries, the first and the third file exist
C8_Witness ==
  /\ pc = "completed"
  /\ Len(dealsJson.deals) = 3
  /\ sawAssociations = <<TRUE, FALSE, TRUE>>
  /\ activityFiles = {deals[1], deals[3]}
  /\ deals[2] \notin activityFiles

----------------------------------------------------------------------------
(* Claims about the whole export run, checked under Spec *)

\* the positions of the main flow at which a vendor request is awaited
AwaitingVendor == pc \in {"deals_wait", "assoc_wait", "batch_wait"}

\* the positions of the main flow inside the loop over the deals
InDealLoop ==
  pc \in {"export_loop", "activities_loop", "assoc_call", "assoc_wait", "batch_loop",
          "batch_wait", "export_check", "completed"}

\* the last deal-page request got this answer
LastPageOutcome(outcome) == pageLog # <<>> /\ pageLog[Len(pageLog)].outcome = outcome

\* C11: when the deal listing fails with an error other than a 401, with a 401 while no
\* refresh token is configured, or because the refresh failed, the error leaves
\* getAllDeals and the run is over: deals.json is not written, no deal is passed to
\* getDealActivities, no association or batch-read request is sent and no activity
\* file is written.
C11_ListingFailureAborts ==
  /\ LastPageOutcome("error") => dealsOutcome = "raised"
  /\ LastPageOutcome("401") /\ ~CanRefresh => dealsOutcome = "raised"
  /\ refreshFailed /\ dealsOutcome # "returned" => dealsOutcome = "raised"
  /\ dealsOutcome = "raised" =>
       /\ pc = "export_failed"
       /\ ~dealsJson.written
       /\ aggregated = <<>>
       /\ listLog = <<>> /\ batchLog = <<>>
       /\ activityFiles = {}

\* C11 witness: the first page arrived with deals, the second request got a 401 and the
\* refresh failed
C11_Witness ==
  /\ dealsOutcome = "raised"
  /\ refreshFailed
  /\ Len(deals) > 0
  /\ LastPageOutcome("401")

\* C15: once a refresh request of the run has failed, no deal-page, association or
\* batch-read request is sent any more: the main flow never again waits for a vendor
\* answer.
C15_NoRequestAfterFailedRefresh == refreshFailed => ~AwaitingVendor

\* the process has nothing left to run: the export returned, or process.exit was called
RunEnded == pc \in {"completed", "export_failed", "exited"}

\* C12: the deals are passed to getDealActivities in the order they were fetched, the
\* next one only after the one before is done; and a run that wrote deals.json and had
\* no file write fail has, when it ends, passed every fetched deal, whatever the
\* vendor and the token endpoint answered in between.
C12_EveryDealAggregated ==
  /\ Len(aggregated) <= Len(deals)
  /\ aggregated = SubSeq(deals, 1, Len(aggregated))
  /\ Len(aggregated) \in {processedCount, processedCount + 1}
  /\ (RunEnded /\ dealsJson.written /\ writeFailedAt = 0 => aggregated = deals)

\* C19 (as claimed): when the write of one deal's activity file has failed, the run
\* still passes every later deal of the list to getDealActivities before it ends.
C19_WriteFailureContinues ==
  writeFailedAt > 0 /\ RunEnded => aggregated = deals

\* C19 (amended): when the write of one deal's activity file has failed, the run is over
\* in the catch of exportDealsAndActivities without process.exit being called: the
\* deal whose write failed is the last one that was passed to getDealActivities, it is
\* not counted as processed, and the activity files are those of deals before it.
C19_WriteFailureEndsRun ==
  writeFailedAt > 0 =>
    /\ pc = "export_failed"
    /\ exit = "none"
    /\ dealsJson.written
    /\ Len(aggregated) = writeFailedAt
    /\ processedCount = writeFailedAt - 1
    /\ activityFiles \subseteq { deals[k] : k \in 1..(writeFailedAt - 1) }

\* C19 witness: of three deals the first got its file, the write for the second failed,
\* and the third was never passed on
C19_Witness ==
  /\ writeFailedAt = 2
  /\ Len(deals) = 3
  /\ activityFiles = {deals[1]}
  /\ aggregated = <<deals[1], deals[2]>>

\* C20: every activity file that exists is named after a deal id held by the deals.json
\* this run wrote; and whenever the run is in the loop over the deals, has passed a deal
\* to getDealActivities, has sent an association or batch-read request or has written
\* an activity file, getAllDeals has returned and deals.json holds the complete list.
C20_ActivityFilesFollowDealsJson ==
  /\ activityFiles \subseteq { dealsJson.deals[k] : k \in DOMAIN dealsJson.deals }
  /\ (\/ InDealLoop
      \/ aggregated # <<>>
      \/ listLog # <<>> \/ batchLog # <<>>
      \/ activityFiles # {})
       => /\ dealsOutcome = "returned"
          /\ ~hasMore
          /\ dealsJson = [written |-> TRUE, deals |-> deals]

\* C20 witness: deals.json holds two deals, the file of the first exists, and an
\* association listing for the second is awaited
C20_Witness ==
  /\ Len(dealsJson.deals) = 2
  /\ activityFiles = {dealsJson.deals[1]}
  /\ dealId = dealsJson.deals[2]
  /\ pc = "assoc_wait"

----------------------------------------------------------------------------
(* Claims about the script from its load on, checked under SpecStartup *)

\* C13: with no access token configured the script gets no further than the access
\* token check, where the process exits with code 1; and when it has exited no refresh
\* request and no vendor request has been sent, whatever the refresh token, the client
\* id and secret and the stored expiry are.
C13_MissingTokenExitsWithoutNetwork ==
  config.accessToken = 0 =>
    /\ pc \in {"load", "token_check", "exited"}
    /\ (pc = "exited" =>
          /\ exit = "1"
          /\ refreshCount = 0
          /\ pageLog = <<>> /\ listLog = <<>> /\ batchLog = <<>>)

\* the number of network calls awaiting their answer: the vendor or refresh request of
\* the main flow, and the refresh request of the startup block
InFlight ==
  (IF AwaitingVendor \/ pc = "refresh_wait" THEN 1 ELSE 0)
    + (IF startupRefresh.pc = "wait" /\ pc # "exited" THEN 1 ELSE 0)

\* C18: at most one network call is in flight, so no vendor request is sent while a
\* refresh request is pending, the one of the startup block included; and config, the
\* client's token and .env are written by the main flow only, never by a callback of
\* the startup refresh running between its steps.
C18_OneCallInFlight ==
  /\ InFlight <= 1
  /\ startupRefresh.pc \notin {"env_update", "done"}

\* the refresh-token exchanges awaiting their answer: the one of the main flow and the
\* one of the startup block
PendingRefreshes ==
  (IF pc = "refresh_wait" THEN 1 ELSE 0)
    + (IF startupRefresh.pc = "wait" /\ pc # "exited" THEN 1 ELSE 0)

\* C21: at most one refresh-token exchange is pending at any time, so no refresh
\* request is sent while the startup refresh, or any earlier refresh, awaits its answer.
C21_SingleFlightRefresh == PendingRefreshes <= 1

\* a refreshAccessToken call is under way: from the 401 (or the startup block) that
\* causes it until it has returned and its caller has installed the new token
RefreshUnderWay ==
  \/ pc \in {"refresh_call", "refresh_wait", "env_update"}
  \/ startupRefresh.pc \in {"wait", "env_update"}

\* C22: whenever no refresh is under way, the token installed on the client, the
\* access token in config (that of the last successful refresh, or the configured one)
\* and the access token in .env are the same, as long as the process lives.
C22_TokensInStep ==
  ~RefreshUnderWay /\ pc \notin {"load", "token_check", "exited"} =>
    /\ hubspotClient = config.accessToken
    /\ config.accessToken = envFile.accessToken

----------------------------------------------------------------------------
(* Claims about the authorization script, checked under SpecAuth *)

\* main has read the stored tokens and taken its branch
Branched == oauth.existing # "unchecked"

\* app.listen has been called
ListenerStarted == oauth.listener # "none"

\* C16: before main has checked the stored tokens nothing is requested or started.
\* After the check the listener has been started exactly if no complete token set was
\* stored, or the stored set was expired and the refresh has failed; the browser is
\* opened only by a bound listener.  With a stored set that is not expired there is no
\* refresh request and no listener, and main is done.  With an expired stored set
\* exactly one refresh request has been sent, and a refresh that succeeded ends main
\* without a listener.
C16_AuthorizationStateMachine ==
  /\ (~Branched => ~ListenerStarted /\ refreshCount = 0 /\ oauth.refresh = "none")
  /\ (Branched =>
        /\ ListenerStarted <=>
             \/ oauth.existing = "null"
             \/ oauth.existing = "found" /\ oauth.expiresAt = "past" /\ oauth.refresh = "failed"
        /\ (oauth.existing = "null" => refreshCount = 0 /\ oauth.refresh = "none")
        /\ (oauth.existing = "found" =>
              /\ envFile.accessToken # 0 /\ envFile.refreshToken # 0
              /\ oauth.envExpiry # "absent"
              /\ oauth.expiresAt # "none")
        /\ (oauth.existing = "found" /\ oauth.expiresAt # "past" =>
              /\ refreshCount = 0 /\ oauth.refresh = "none"
              /\ pc = "auth_done")
        /\ (oauth.existing = "found" /\ oauth.expiresAt = "past" =>
              /\ refreshCount = 1
              /\ oauth.refresh \in {"pending", "ok", "failed"}
              /\ (oauth.refresh = "pending" <=> pc = "auth_refresh_wait")
              /\ (oauth.refresh = "ok" => pc \in {"auth_env_update", "auth_done"})))
  /\ (oauth.browser => oauth.listener = "bound")

\* C16 witness: the stored tokens were expired, the one refresh request failed, the
\* listener was started and bound, and the browser is open
C16_Witness ==
  /\ oauth.existing = "found"
  /\ oauth.expiresAt = "past"
  /\ oauth.refresh = "failed"
  /\ refreshCount = 1
  /\ oauth.listener = "bound"
  /\ oauth.browser
  /\ pc = "listening"

====
